---- MODULE Spec2Model ----
(***************************************************************************)
(* Model of the real-estate dashboard script (src/code.py).                *)
(*                                                                         *)
(* Two specifications are defined over one set of variables:               *)
(*   CodecSpec  the three pure helper functions parse_price, parse_space   *)
(*              and format_price_for_csv applied to bounded inputs;        *)
(*   Spec       the Streamlit session: the backing CSV file, the in-memory *)
(*              table of one script run, the sidebar widgets, and the      *)
(*              Save Project / Delete Project handlers.                    *)
(*                                                                         *)
(* Representation.  A Python str is a sequence of one-character strings.   *)
(* A table cell is a record [na, s]: na is TRUE for the pandas absence     *)
(* marker (NaN/None).  A Python number is an exact decimal [n, e] standing *)
(* for n / 10^e in lowest form (e is 0 for every int).  The correctly      *)
(* rounded double division and '.1f' formatting of format_price_for_csv    *)
(* are computed exactly (see FloatSide); the last-bit error of the double  *)
(* product mantissa * multiplier in parse_price is not represented.        *)
(***************************************************************************)
EXTENDS Integers, Sequences, FiniteSets, TLC

VARIABLES
    csv,          \* projects_data.csv: sequence of rows of the seven stored columns
    df,           \* the DataFrame of the current script run (nine columns)
    pc,           \* "run": script rendered; "rerun": st.rerun() pending; "halted": st.stop()
    widgets,      \* sidebar selectors, range inputs and page number of the run
                  \* (no widget is on screen while a rerun is pending or after st.stop())
    form,         \* values of the Add New Project inputs at the last button press
    msg,          \* message shown by the last handler
    last,         \* the last handler that ran and the position chosen in its selector
    ops,          \* number of accepted adds and deletes so far
    fn,           \* CodecSpec: the helper last called
    text,         \* CodecSpec: its text argument (a cell)
    num,          \* CodecSpec: its numeric argument
    ret           \* CodecSpec: its outcome

vars == <<csv, df, pc, widgets, form, msg, last, ops, fn, text, num, ret>>

appVars == <<csv, df, pc, widgets, form, msg, last, ops>>

codecVars == <<fn, text, num, ret>>

-----------------------------------------------------------------------------
(* Bounds *)

\* longest generated text handed to the parsers
MaxLen == 4

\* integers 0..MaxSmall are all handed to format_price_for_csv
MaxSmall == 1100

\* multiples of 50 (the one-decimal ties of the K unit) up to 50 * MaxFifty
MaxFifty == 2100

\* multiples of 50,000 (the one-decimal ties of the M unit) up to 50,000 * MaxTie
MaxTie == 60

\* accepted adds and deletes of one session
MaxOps == 1

\* filter widgets that are off their default value at the same time
MaxActive == 1

-----------------------------------------------------------------------------
(* Python values *)

Cell(s) == [na |-> FALSE, s |-> s]

NaN == [na |-> TRUE, s |-> <<>>]

Pow10(k) == IF k = 0 THEN 1
            ELSE IF k = 1 THEN 10
            ELSE IF k = 2 THEN 100
            ELSE IF k = 3 THEN 1000
            ELSE IF k = 4 THEN 10000
            ELSE IF k = 5 THEN 100000
            ELSE IF k = 6 THEN 1000000
            ELSE IF k = 7 THEN 10000000
            ELSE IF k = 8 THEN 100000000
            ELSE 1000000000

RECURSIVE Norm(_, _)
Norm(n, e) == IF e > 0 /\ n % 10 = 0 THEN Norm(n \div 10, e - 1)
              ELSE [n |-> n, e |-> e]

Int2Num(i) == [n |-> i, e |-> 0]

Zero == Int2Num(0)

\* v * 10^k
Scale(v, k) == IF v.e >= k THEN Norm(v.n, v.e - k)
               ELSE [n |-> v.n * Pow10(k - v.e), e |-> 0]

\* a <= b on exact decimals
Leq(a, b) == a.n * Pow10(b.e) <= b.n * Pow10(a.e)

\* int(v): truncation toward zero of a non-negative number
Trunc(v) == v.n \div Pow10(v.e)

Return(v) == [exc |-> "none", val |-> v]

Raise(e) == [exc |-> e, val |-> Zero]

-----------------------------------------------------------------------------
(* str methods and the regular expressions *)

DigitChars == <<"0", "1", "2", "3", "4", "5", "6", "7", "8", "9">>

IsDigit(c) == \E i \in 1..10 : DigitChars[i] = c

DigitVal(c) == (CHOOSE i \in 1..10 : DigitChars[i] = c) - 1

IsSpace(c) == c = " "

Upper(c) == CASE c = "m" -> "M"
              [] c = "k" -> "K"
              [] c = "x" -> "X"
              [] c = "a" -> "A"
              [] c = "b" -> "B"
              [] c = "c" -> "C"
              [] c = "f" -> "F"
              [] c = "q" -> "Q"
              [] c = "s" -> "S"
              [] c = "t" -> "T"
              [] OTHER -> c

Lower(c) == CASE c = "M" -> "m"
              [] c = "K" -> "k"
              [] c = "X" -> "x"
              [] OTHER -> c

RECURSIVE LStrip(_)
LStrip(s) == IF s # <<>> /\ IsSpace(Head(s)) THEN LStrip(Tail(s)) ELSE s

RECURSIVE RStrip(_)
RStrip(s) == IF s # <<>> /\ IsSpace(s[Len(s)]) THEN RStrip(SubSeq(s, 1, Len(s) - 1)) ELSE s

Strip(s) == RStrip(LStrip(s))

UpperStr(s) == [i \in 1..Len(s) |-> Upper(s[i])]

LowerStr(s) == [i \in 1..Len(s) |-> Lower(s[i])]

\* length of the longest prefix matched by [\d.]+ (0: no match)
RECURSIVE NumRun(_)
NumRun(s) == IF s # <<>> /\ (IsDigit(Head(s)) \/ Head(s) = ".") THEN 1 + NumRun(Tail(s))
             ELSE 0

\* length of the longest prefix matched by \s*
RECURSIVE SpaceRun(_)
SpaceRun(s) == IF s # <<>> /\ IsSpace(Head(s)) THEN 1 + SpaceRun(Tail(s)) ELSE 0

\* re.match(r'([\d.]+)\s*([MK]?)', s): matched, group(1), group(2)
MatchPrice(s) ==
    LET r == NumRun(s)
        rest == SubSeq(s, r + 1, Len(s))
        w == SpaceRun(rest)
        after == SubSeq(rest, w + 1, Len(rest))
    IN  [matched |-> r > 0,
         g1 |-> SubSeq(s, 1, r),
         g2 |-> IF after # <<>> /\ Head(after) \in {"M", "K"} THEN <<Head(after)>> ELSE <<>>]

\* re.match(r'([\d.]+)', s)
MatchSpace(s) ==
    LET r == NumRun(s)
    IN  [matched |-> r > 0, g1 |-> SubSeq(s, 1, r)]

Dots(s) == Cardinality({i \in 1..Len(s) : s[i] = "."})

RECURSIVE DigitsVal(_)
DigitsVal(s) == IF s = <<>> THEN 0
                ELSE 10 * DigitsVal(SubSeq(s, 1, Len(s) - 1)) + DigitVal(s[Len(s)])

\* float(m) for a text m of digits and points: ValueError unless m holds at
\* most one point and at least one digit
Float(m) ==
    IF Dots(m) > 1 \/ Dots(m) = Len(m) THEN Raise("ValueError")
    ELSE LET ds == SelectSeq(m, IsDigit)
             p == IF Dots(m) = 0 THEN Len(m) + 1
                  ELSE 1 + (CHOOSE i \in 1..Len(m) : m[i] = ".")
         IN  Return(Norm(DigitsVal(ds), Len(m) + 1 - p))

-----------------------------------------------------------------------------
(* Helper functions *)

\* parse_price without the upper-casing of line 21
parse_price_case_sensitive(price_str) ==
    IF price_str.na THEN Return(Zero)
    ELSE LET s == Strip(price_str.s)
             match == MatchPrice(s)
         IN  IF match.matched
             THEN LET number == Float(match.g1)
                      multiplier == match.g2
                  IN  IF number.exc # "none" THEN number
                      ELSE IF multiplier = <<"M">> THEN Return(Scale(number.val, 6))
                      ELSE IF multiplier = <<"K">> THEN Return(Scale(number.val, 3))
                      ELSE number
             ELSE Return(Zero)

\* parse_price without the unit branches of lines 26-29
parse_price_no_unit(price_str) ==
    IF price_str.na THEN Return(Zero)
    ELSE LET s == UpperStr(Strip(price_str.s))
             match == MatchPrice(s)
         IN  IF match.matched THEN Float(match.g1) ELSE Return(Zero)

parse_price(price_str) ==
    IF price_str.na THEN Return(Zero)
    ELSE LET s == UpperStr(Strip(price_str.s))
             match == MatchPrice(s)
         IN  IF match.matched
             THEN LET number == Float(match.g1)
                      multiplier == match.g2
                  IN  IF number.exc # "none" THEN number
                      ELSE IF multiplier = <<"M">> THEN Return(Scale(number.val, 6))
                      ELSE IF multiplier = <<"K">> THEN Return(Scale(number.val, 3))
                      ELSE number
             ELSE Return(Zero)

parse_space(space_str) ==
    IF space_str.na THEN Return(Zero)
    ELSE LET s == LowerStr(Strip(space_str.s))
             match == MatchSpace(s)
         IN  IF match.matched THEN Float(match.g1) ELSE Return(Zero)

\* str(i) for a non-negative int
RECURSIVE IntStr(_)
IntStr(i) == IF i < 10 THEN <<DigitChars[i + 1]>>
             ELSE IntStr(i \div 10) \o <<DigitChars[(i % 10) + 1]>>

\* floor(log2(m / 20)) for m >= 20
RECURSIVE Log2Of20th(_)
Log2Of20th(m) == IF m >= 40 THEN 1 + Log2Of20th(m \div 2) ELSE 0

\* The double nearest to the tie v = m/20 (m odd, 1 <= v < 2^50) lies below
\* v (-1), on v (0) or above v (1).  With b = floor(log2 v) the double is
\* round(m * 2^(52-b) / 20) / 2^(52-b), so the side is decided by
\* (m * 2^(52-b)) mod 20, and 2^k mod 20 is 16, 12, 4, 8 for k mod 4 = 0..3.
FloatSide(m) ==
    LET k == 52 - Log2Of20th(m)
        p == <<16, 12, 4, 8>>[(k % 4) + 1]
        r == ((m % 20) * p) % 20
    IN  IF r = 0 THEN 0 ELSE IF r < 10 THEN -1 ELSE 1

\* f"{x / 10^u:.1f}" as a number of tenths: the correctly rounded quotient,
\* then round-half-even of its exact binary value to one decimal
Tenths(x, u) ==
    LET D == Pow10(x.e + u - 1)
        lo == x.n \div D
        rem == x.n % D
    IN  IF 2 * rem < D THEN lo
        ELSE IF 2 * rem > D THEN lo + 1
        ELSE LET side == FloatSide(2 * lo + 1)
             IN  IF side < 0 THEN lo
                 ELSE IF side > 0 THEN lo + 1
                 ELSE IF lo % 2 = 0 THEN lo ELSE lo + 1

\* the text of t tenths with exactly one decimal place
OneDecimal(t) == IntStr(t \div 10) \o <<".">> \o IntStr(t % 10)

\* format_price_for_csv with > for >= in lines 47 and 49
format_price_strict_thresholds(price_numeric) ==
    IF ~Leq(price_numeric, Int2Num(1000000))
    THEN OneDecimal(Tenths(price_numeric, 6)) \o <<"M">>
    ELSE IF ~Leq(price_numeric, Int2Num(1000))
    THEN OneDecimal(Tenths(price_numeric, 3)) \o <<"K">>
    ELSE IntStr(Trunc(price_numeric))

format_price_for_csv(price_numeric) ==
    IF Leq(Int2Num(1000000), price_numeric)
    THEN OneDecimal(Tenths(price_numeric, 6)) \o <<"M">>
    ELSE IF Leq(Int2Num(1000), price_numeric)
    THEN OneDecimal(Tenths(price_numeric, 3)) \o <<"K">>
    ELSE IntStr(Trunc(price_numeric))


-----------------------------------------------------------------------------
(* The table and the file *)

StoredRow(dev, proj, city, dis, type, price, space) ==
    [DEV |-> dev, PROJ |-> proj, City |-> city, Dis |-> dis, Type |-> type,
     Price |-> price, Space |-> space]

\* df['Price_Numeric'] = df['Price'].apply(parse_price), and the same for Space
WithNumeric(row, price_numeric, space_numeric) ==
    [DEV |-> row.DEV, PROJ |-> row.PROJ, City |-> row.City, Dis |-> row.Dis,
     Type |-> row.Type, Price |-> row.Price, Space |-> row.Space,
     Price_Numeric |-> price_numeric, Space_Numeric |-> space_numeric]

\* load_data: the rows of the file with the two derived columns; an
\* exception raised by a parser is caught and the script stops
load_data(file) ==
    IF \E i \in 1..Len(file) : \/ parse_price(file[i].Price).exc # "none"
                               \/ parse_space(file[i].Space).exc # "none"
    THEN [stopped |-> TRUE, df |-> <<>>]
    ELSE [stopped |-> FALSE,
          df |-> [i \in 1..Len(file) |->
                    WithNumeric(file[i], parse_price(file[i].Price).val,
                                parse_space(file[i].Space).val)]]

\* save_data: the seven stored columns of every row
save_data(table) ==
    [i \in 1..Len(table) |->
        StoredRow(table[i].DEV, table[i].PROJ, table[i].City, table[i].Dis,
                  table[i].Type, table[i].Price, table[i].Space)]

-----------------------------------------------------------------------------
(* Sidebar widgets *)

MinNum(S) == CHOOSE a \in S : \A b \in S : Leq(a, b)

MaxNum(S) == CHOOSE a \in S : \A b \in S : Leq(b, a)

Col(table, c) == {table[i][c] : i \in 1..Len(table)}

Options(table, c) == {"All"} \cup Col(table, c)

min_price(table) == IF Len(table) > 0 THEN Trunc(MinNum(Col(table, "Price_Numeric"))) ELSE 0

max_price(table) == IF Len(table) > 0 THEN Trunc(MaxNum(Col(table, "Price_Numeric"))) ELSE 10000000

min_space(table) == IF Len(table) > 0 THEN Trunc(MinNum(Col(table, "Space_Numeric"))) ELSE 0

max_space(table) == IF Len(table) > 0 THEN Trunc(MaxNum(Col(table, "Space_Numeric"))) ELSE 1000

\* the widget values of a first render
Defaults(table) ==
    [DEV |-> "All", PROJ |-> "All", City |-> "All", Dis |-> "All", Type |-> "All",
     price_from |-> min_price(table), price_to |-> max_price(table),
     space_from |-> min_space(table), space_to |-> max_space(table),
     page_number |-> 1]

\* filter_df with < for <= in line 195
filter_df_exclusive_upper(table, w) ==
    LET f0 == [i \in 1..Len(table) |-> i]
        f1 == IF w.DEV # "All" THEN SelectSeq(f0, LAMBDA i : table[i].DEV = w.DEV) ELSE f0
        f2 == IF w.PROJ # "All" THEN SelectSeq(f1, LAMBDA i : table[i].PROJ = w.PROJ) ELSE f1
        f3 == IF w.City # "All" THEN SelectSeq(f2, LAMBDA i : table[i].City = w.City) ELSE f2
        f4 == IF w.Dis # "All" THEN SelectSeq(f3, LAMBDA i : table[i].Dis = w.Dis) ELSE f3
        f5 == IF w.Type # "All" THEN SelectSeq(f4, LAMBDA i : table[i].Type = w.Type) ELSE f4
    IN  SelectSeq(f5, LAMBDA i :
            /\ Leq(Int2Num(w.price_from), table[i].Price_Numeric)
            /\ ~Leq(Int2Num(w.price_to), table[i].Price_Numeric)
            /\ Leq(Int2Num(w.space_from), table[i].Space_Numeric)
            /\ Leq(table[i].Space_Numeric, Int2Num(w.space_to)))

\* filter_df: the labels of the rows kept, in table order
filter_df(table, w) ==
    LET f0 == [i \in 1..Len(table) |-> i]
        f1 == IF w.DEV # "All" THEN SelectSeq(f0, LAMBDA i : table[i].DEV = w.DEV) ELSE f0
        f2 == IF w.PROJ # "All" THEN SelectSeq(f1, LAMBDA i : table[i].PROJ = w.PROJ) ELSE f1
        f3 == IF w.City # "All" THEN SelectSeq(f2, LAMBDA i : table[i].City = w.City) ELSE f2
        f4 == IF w.Dis # "All" THEN SelectSeq(f3, LAMBDA i : table[i].Dis = w.Dis) ELSE f3
        f5 == IF w.Type # "All" THEN SelectSeq(f4, LAMBDA i : table[i].Type = w.Type) ELSE f4
    IN  SelectSeq(f5, LAMBDA i :
            /\ Leq(Int2Num(w.price_from), table[i].Price_Numeric)
            /\ Leq(table[i].Price_Numeric, Int2Num(w.price_to))
            /\ Leq(Int2Num(w.space_from), table[i].Space_Numeric)
            /\ Leq(table[i].Space_Numeric, Int2Num(w.space_to)))

filtered_df == filter_df(df, widgets)

page_size == 10

Max(a, b) == IF a >= b THEN a ELSE b

total_pages(n) == Max(1, (n - 1) \div page_size + 1)

-----------------------------------------------------------------------------
(* Spec: the session *)

Form(dev, proj, city, dis, type, price, space) ==
    [new_dev |-> dev, new_proj |-> proj, new_city |-> city, new_dis |-> dis,
     new_type |-> type, new_price |-> price, new_space |-> space]

\* the Add New Project inputs before anything is typed
BlankForm == Form("", "", "", "", "", 0, 0)

Handler(op, selected) == [op |-> op, selected |-> selected]

\* the script runs from the top on file f with widget values w
Render(f, w) ==
    LET loaded == load_data(f)
    IN  IF loaded.stopped
        THEN /\ pc' = "halted" /\ df' = <<>> /\ widgets' = Defaults(<<>>)
        ELSE /\ pc' = "run" /\ df' = loaded.df
             /\ widgets' = w

SampleFile ==
    << StoredRow("Emaar", "Marina", "Dubai", "Downtown", "Villa",
                 Cell(<<"2", ".", "5", "M">>),
                 Cell(<<"8", "5", "0", ".", "5", " ", "s", "q", "f", "t">>)),
       StoredRow("Damac", "Marina", "Dubai", "Downtown", "Villa",
                 Cell(<<"5", "0", "0", "K">>), Cell(<<"5", "0", "0", "f", "t">>)),
       StoredRow("Emaar", "Marina", "Sharjah", "Downtown", "Villa",
                 Cell(<<"7", "5", "0">>), NaN) >>

\* more rows than one page shows: prices 1K, 2K, ..., (page_size + 1)K
LongFile ==
    [i \in 1..(page_size + 1) |->
        StoredRow("Emaar", "Marina", "Dubai", "Downtown", "Villa",
                  Cell(IntStr(i) \o <<"K">>), Cell(<<"1", "2", "0", "0", "f", "t">>))]

BadFile ==
    << StoredRow("Emaar", "Marina", "Dubai", "Downtown", "Villa",
                 Cell(<<"1", ".", "2", ".", "3">>), Cell(<<"5", "0", "0", "f", "t">>)) >>

Files == {<<>>, SampleFile, LongFile, BadFile}

AddPrices == {750, 2500000, 2560000}

ValidForm(p) == Form("Emaar", "Marina", "Dubai", "Downtown", "Villa", p, 1200)

\* every accepted price, and the forms that miss exactly one requirement
FormInputs ==
    {ValidForm(p) : p \in AddPrices}
    \cup {[ValidForm(2500000) EXCEPT ![k] = ""] :
            k \in {"new_dev", "new_proj", "new_city", "new_dis", "new_type"}}
    \cup {[ValidForm(2500000) EXCEPT ![k] = 0] : k \in {"new_price", "new_space"}}

PriceStops == {2500}

SpaceStops == {500}

Init ==
    /\ csv \in Files
    /\ LET loaded == load_data(csv)
       IN  /\ df = loaded.df
           /\ pc = IF loaded.stopped THEN "halted" ELSE "run"
           /\ widgets = Defaults(loaded.df)
    /\ form = BlankForm /\ msg = "" /\ last = Handler("none", -1) /\ ops = 0
    /\ fn = "none" /\ text = NaN /\ num = 0 /\ ret = Return(Zero)

\* line 118 with >= for > on the price
Complete_allows_zero(f) ==
    /\ f.new_dev # "" /\ f.new_proj # "" /\ f.new_city # "" /\ f.new_dis # ""
    /\ f.new_type # "" /\ f.new_price >= 0 /\ f.new_space > 0

\* the condition of line 118
Complete(f) ==
    /\ f.new_dev # "" /\ f.new_proj # "" /\ f.new_city # "" /\ f.new_dis # ""
    /\ f.new_type # "" /\ f.new_price > 0 /\ f.new_space > 0

\* new_row with str(new_price) for format_price_for_csv(new_price) in line 126
new_row_plain_price(f) ==
    WithNumeric(StoredRow(f.new_dev, f.new_proj, f.new_city, f.new_dis, f.new_type,
                          Cell(IntStr(f.new_price)),
                          Cell(IntStr(f.new_space) \o <<"f", "t">>)),
                Int2Num(f.new_price), Int2Num(f.new_space))

new_row(f) ==
    WithNumeric(StoredRow(f.new_dev, f.new_proj, f.new_city, f.new_dis, f.new_type,
                          Cell(format_price_for_csv(Int2Num(f.new_price))),
                          Cell(IntStr(f.new_space) \o <<"f", "t">>)),
                Int2Num(f.new_price), Int2Num(f.new_space))

\* the Save Project button
SaveProject ==
    \E f \in FormInputs :
        /\ pc = "run" /\ ops < MaxOps
        /\ form' = f /\ last' = Handler("add", -1)
        /\ IF Complete(f)
           THEN /\ df' = Append(df, new_row(f))
                /\ csv' = save_data(df')
                /\ msg' = "added" /\ pc' = "rerun" /\ ops' = ops + 1
                /\ widgets' = Defaults(<<>>)
           ELSE /\ msg' = "fill all required fields"
                /\ UNCHANGED <<df, csv, pc, widgets, ops>>
        /\ UNCHANGED codecVars

\* df.drop(label): the table without the row of that label
Drop(table, label) == [i \in 1..(Len(table) - 1) |-> IF i < label THEN table[i] ELSE table[i + 1]]

\* the Delete Selected Project button; the selector offers every row of filtered_df
DeleteProject ==
    \E selected_to_delete \in 0..(Len(filtered_df) - 1) :
        /\ pc = "run" /\ ops < MaxOps /\ Len(filtered_df) > 0
        /\ last' = Handler("delete", selected_to_delete)
        /\ LET start == (widgets.page_number - 1) * page_size
               pos == start + selected_to_delete
           IN  IF pos >= Len(filtered_df)
               THEN /\ msg' = "IndexError"
                    /\ UNCHANGED <<df, csv, pc, widgets, ops>>
               ELSE /\ df' = Drop(df, filtered_df[pos + 1])
                    /\ csv' = save_data(df')
                    /\ msg' = "deleted" /\ pc' = "rerun" /\ ops' = ops + 1
                    /\ widgets' = Defaults(<<>>)
        /\ form' = BlankForm
        /\ UNCHANGED codecVars

\* st.rerun(): the next script run reads the file again
Rerun ==
    /\ pc = "rerun"
    /\ Render(csv, Defaults(load_data(csv).df))
    /\ UNCHANGED <<csv, form, msg, last, ops, codecVars>>

\* the Reload Data button, also after st.stop()
ReloadData ==
    /\ pc \in {"run", "halted"}
    /\ Render(csv, widgets)
    /\ form' = BlankForm /\ msg' = "" /\ last' = Handler("reload", -1)
    /\ UNCHANGED <<csv, ops, codecVars>>

FilterWidgets ==
    {"DEV", "PROJ", "City", "Dis", "Type", "price_from", "price_to", "space_from", "space_to"}

\* how many filter widgets are off their default value
Active(table, w) == Cardinality({k \in FilterWidgets : w[k] # Defaults(table)[k]})

\* The script runs again with widget values w.  The file is as the previous
\* run read it, so load_data returns the table of that run (TableAsLoaded);
\* the Page input starts again at 1 when its max_value changes.
Rendered(w) ==
    /\ pc = "run" /\ Active(df, w) <= MaxActive
    /\ widgets' = IF total_pages(Len(filter_df(df, w))) = total_pages(Len(filtered_df))
                  THEN w ELSE [w EXCEPT !.page_number = 1]
    /\ form' = BlankForm /\ msg' = "" /\ last' = Handler("widget", -1)
    /\ UNCHANGED <<csv, df, pc, ops, codecVars>>

\* one of the five selectboxes is set
SetSelector ==
    \E c \in {"DEV", "PROJ", "City", "Dis", "Type"} : \E v \in Options(df, c) :
        /\ widgets[c] # v
        /\ Rendered([widgets EXCEPT ![c] = v])

RangeChoices(table, k) ==
    CASE k = "price_from" -> {min_price(table)} \cup {v \in PriceStops : v <= max_price(table)}
      [] k = "price_to" -> {max_price(table)} \cup {v \in PriceStops : v <= max_price(table)}
      [] k = "space_from" -> {min_space(table)} \cup {v \in SpaceStops : v <= max_space(table)}
      [] k = "space_to" -> {max_space(table)} \cup {v \in SpaceStops : v <= max_space(table)}

\* one of the four range inputs is set (min_value 0, max_value the column's maximum)
SetRange ==
    \E k \in {"price_from", "price_to", "space_from", "space_to"} :
      \E v \in RangeChoices(df, k) :
        /\ widgets[k] # v
        /\ Rendered([widgets EXCEPT ![k] = v])

\* the Page input (min_value 1, max_value total_pages)
SetPage ==
    \E p \in 1..total_pages(Len(filtered_df)) :
        /\ Len(filtered_df) > 0 /\ widgets.page_number # p
        /\ Rendered([widgets EXCEPT !.page_number = p])

Next == SaveProject \/ DeleteProject \/ Rerun \/ ReloadData \/ SetSelector \/ SetRange \/ SetPage

Spec == Init /\ [][Next]_vars

-----------------------------------------------------------------------------
(* CodecSpec: the helpers applied to bounded inputs *)

Chars == {"1", ".", "M", "k", " ", "x"}

RECURSIVE SeqsUpTo(_, _)
SeqsUpTo(S, k) == IF k = 0 THEN {<<>>}
                  ELSE LET shorter == SeqsUpTo(S, k - 1)
                       IN  shorter \cup {Append(t, c) : t \in {u \in shorter : Len(u) = k - 1}, c \in S}

ExampleTexts ==
    { <<"2", ".", "5", "M">>, <<"2", ".", "5", "m">>, <<"5", "0", "0", "K">>,
      <<"1", ".", "7", "5", "M">>, <<"7", "5", "0">>, <<>>, <<"a", "b", "c">>,
      <<"1", "2", "0", "0", "f", "t">>,
      <<"8", "5", "0", ".", "5", " ", "s", "q", "f", "t">>,
      <<".">>, <<"1", ".", "2", ".", "3">>, <<" ", "2", ".", "5", " ", "M", " ">> }

Texts == {NaN} \cup {Cell(s) : s \in ExampleTexts \cup SeqsUpTo(Chars, MaxLen)}

ExamplePrices == {2500000, 500000, 750, 0, 2560000, 1750000, 999949, 999950, 999999, 1000000}

Prices ==
    (0..MaxSmall) \cup ExamplePrices
    \cup {50 * k + d : k \in 20..MaxFifty, d \in {-1, 0, 1}}
    \cup {50000 * k + d : k \in 20..MaxTie, d \in {-1, 0, 1}}

CodecInit ==
    /\ fn = "none" /\ text = NaN /\ num = 0 /\ ret = Return(Zero)
    /\ csv = <<>> /\ df = <<>> /\ pc = "codec" /\ widgets = Defaults(<<>>)
    /\ form = BlankForm /\ msg = "" /\ last = Handler("none", -1) /\ ops = 0

CallParsePrice ==
    \E t \in Texts :
        /\ fn = "none"
        /\ fn' = "parse_price" /\ text' = t /\ ret' = parse_price(t)
        /\ num' = 0
        /\ UNCHANGED appVars

CallParseSpace ==
    \E t \in Texts :
        /\ fn = "none"
        /\ fn' = "parse_space" /\ text' = t /\ ret' = parse_space(t)
        /\ num' = 0
        /\ UNCHANGED appVars

CallFormatPrice ==
    \E x \in Prices :
        /\ fn = "none"
        /\ fn' = "format_price_for_csv" /\ num' = x
        /\ text' = Cell(format_price_for_csv(Int2Num(x)))
        /\ ret' = Return(Zero)
        /\ UNCHANGED appVars

CodecNext == CallParsePrice \/ CallParseSpace \/ CallFormatPrice

CodecSpec == CodecInit /\ [][CodecNext]_vars

-----------------------------------------------------------------------------
(* Properties of the helpers, checked under CodecSpec *)

\* the trimmed, upper-cased text of the call
Shown == UpperStr(Strip(text.s))

\* its leading run of digits and points, and what follows the run
Mantissa == SubSeq(Shown, 1, NumRun(Shown))

AfterRun == SubSeq(Shown, NumRun(Shown) + 1, Len(Shown))

\* the run is a number: at most one point, at least one digit
WellFormed(m) == Dots(m) <= 1 /\ Dots(m) < Len(m)

MantissaDigits == DigitsVal(SelectSeq(Mantissa, IsDigit))

\* the number of digits after the point of the run
FractionDigits ==
    IF Dots(Mantissa) = 0 THEN 0
    ELSE Len(Mantissa) - (CHOOSE i \in 1..Len(Mantissa) : Mantissa[i] = ".")

\* ret is the number MantissaDigits / 10^FractionDigits * mult
ReturnsMantissaTimes(mult) ==
    /\ ret.exc = "none"
    /\ ret.val.n * Pow10(FractionDigits) = MantissaDigits * mult * Pow10(ret.val.e)

IsPriceCall == fn = "parse_price" /\ ~text.na /\ NumRun(Shown) > 0 /\ WellFormed(Mantissa)

\* C1 as stated: parse_price returns mantissa x 1,000,000 when the character
\* right after the leading run is M, mantissa x 1,000 when it is K, and
\* mantissa x 1 when the run is followed by no letter or by another letter.
PriceUnitFollowsRun ==
    IsPriceCall =>
        IF AfterRun # <<>> /\ Head(AfterRun) = "M" THEN ReturnsMantissaTimes(1000000)
        ELSE IF AfterRun # <<>> /\ Head(AfterRun) = "K" THEN ReturnsMantissaTimes(1000)
        ELSE ReturnsMantissaTimes(1)

\* what follows the run once the whitespace after it is skipped
AfterRunAndSpace == LStrip(AfterRun)

PriceExamples ==
    /\ (fn = "parse_price" /\ text \in {Cell(<<"2", ".", "5", "M">>), Cell(<<"2", ".", "5", "m">>)})
          => ret = Return(Int2Num(2500000))
    /\ (fn = "parse_price" /\ text = Cell(<<"5", "0", "0", "K">>)) => ret = Return(Int2Num(500000))
    /\ (fn = "parse_price" /\ text = Cell(<<"1", ".", "7", "5", "M">>)) => ret = Return(Int2Num(1750000))
    /\ (fn = "parse_price" /\ text = Cell(<<"7", "5", "0">>)) => ret = Return(Int2Num(750))

\* C1 amended: for a leading run that is a number, parse_price returns
\* mantissa x 1,000,000 when the run is followed, after any whitespace, by M, mantissa x 1,000 when it is so
\* followed by K, and mantissa x 1 otherwise; matching is case-insensitive,
\* and "2.5M", "2.5m", "500K", "1.75M", "750" give the values of the claim.
PriceUnitAfterWhitespace ==
    /\ IsPriceCall =>
          IF AfterRunAndSpace # <<>> /\ Head(AfterRunAndSpace) = "M"
          THEN ReturnsMantissaTimes(1000000)
          ELSE IF AfterRunAndSpace # <<>> /\ Head(AfterRunAndSpace) = "K"
          THEN ReturnsMantissaTimes(1000)
          ELSE ReturnsMantissaTimes(1)
    /\ PriceExamples

\* a unit letter separated from the mantissa by a space has been applied
SpacedUnitParsed ==
    /\ fn = "parse_price" /\ text = Cell(<<"1", " ", "k">>)
    /\ ret = Return(Int2Num(1000))

\* C2: parse_price and parse_space never raise, always return a number, and
\* return 0 for the absence marker and for a text with no leading numeric run.
ParsersAreTotal ==
    fn \in {"parse_price", "parse_space"} =>
        /\ ret.exc = "none"
        /\ (text.na \/ NumRun(Strip(text.s)) = 0) => ret.val = Zero

\* the text of a format call read back: digits, a point, one digit, a unit
UnitText(r, unit) ==
    /\ Len(r) >= 4 /\ r[Len(r)] = unit /\ r[Len(r) - 2] = "."
    /\ \A i \in (1..(Len(r) - 3)) \cup {Len(r) - 1} : IsDigit(r[i])
    /\ (Len(r) > 4 => r[1] # "0")

TenthsRead(r) == 10 * DigitsVal(SubSeq(r, 1, Len(r) - 3)) + DigitVal(r[Len(r) - 1])

Dist(a, b) == IF a >= b THEN a - b ELSE b - a

\* C3: format_price_for_csv(x) is x/1,000,000 to exactly one decimal place
\* and "M" for x >= 1,000,000, x/1,000 to one decimal place and "K" for
\* 1,000 <= x < 1,000,000 (the mantissa is never below 1), and the integer x
\* with no point and no unit for x < 1,000.
FormatChoosesLargestUnit ==
    fn = "format_price_for_csv" =>
        /\ num >= 1000000 =>
              /\ UnitText(text.s, "M") /\ TenthsRead(text.s) >= 10
              /\ Dist(TenthsRead(text.s) * 100000, num) <= 50000
        /\ (num >= 1000 /\ num < 1000000) =>
              /\ UnitText(text.s, "K") /\ TenthsRead(text.s) >= 10
              /\ Dist(TenthsRead(text.s) * 100, num) <= 50
        /\ num < 1000 =>
              /\ \A i \in 1..Len(text.s) : IsDigit(text.s[i])
              /\ Len(text.s) >= 1 /\ (Len(text.s) > 1 => text.s[1] # "0")
              /\ DigitsVal(text.s) = num
        /\ num = 2500000 => text.s = <<"2", ".", "5", "M">>
        /\ num = 500000 => text.s = <<"5", "0", "0", ".", "0", "K">>
        /\ num = 0 => text.s = <<"0">>

\* the smallest price of the M unit has been formatted
MillionFormatted ==
    fn = "format_price_for_csv" /\ num = 1000000 /\ text.s = <<"1", ".", "0", "M">>

\* decode(encode(x)) for the price x whose text is in the state
Decoded == parse_price(text)

\* C4: decode(encode(x)) is a fixed point of the round trip:
\* decode(encode(decode(encode(x)))) = decode(encode(x)).
RoundTripIsFixedPoint ==
    fn = "format_price_for_csv" =>
        /\ Decoded.exc = "none"
        /\ parse_price(Cell(format_price_for_csv(Decoded.val))) = Decoded

\* a price just below 1,000,000 whose mantissa rounds up to 1000.0K, and
\* whose decoded value is written in the next unit
CarriedIntoNextUnit ==
    /\ fn = "format_price_for_csv" /\ num = 999950
    /\ text.s = <<"1", "0", "0", "0", ".", "0", "K">>
    /\ format_price_for_csv(Decoded.val) = <<"1", ".", "0", "M">>

-----------------------------------------------------------------------------
(* Properties of the session, checked under Spec *)

\* the table of a rendered run is the one load_data reads from the file
TableAsLoaded == df = load_data(csv).df

\* lo <= v <= hi for integers lo, hi and a number v
Within(lo, v, hi) == lo * Pow10(v.e) <= v.n /\ v.n <= hi * Pow10(v.e)

Matches(L, w) ==
    /\ Within(w.price_from, L.Price_Numeric, w.price_to)
    /\ Within(w.space_from, L.Space_Numeric, w.space_to)
    /\ \A c \in {"DEV", "PROJ", "City", "Dis", "Type"} : w[c] # "All" => L[c] = w[c]

Kept(i) == \E j \in 1..Len(filtered_df) : filtered_df[j] = i

\* C5: a listing is in the result of filter_df if and only if its price and
\* space lie in the two ranges, bounds included, and every selector that is
\* not "All" equals the listing's field; the table itself is not changed.
FilterKeepsExactlyMatches ==
    pc = "run" =>
        /\ \A i \in 1..Len(df) : Kept(i) <=> Matches(df[i], widgets)
        /\ TableAsLoaded

\* a selector is set, the result is a proper non-empty part of the table, and
\* a listing that is kept lies on a bound of a range
FilteredOnBound ==
    /\ pc = "run" /\ widgets.DEV # "All"
    /\ 0 < Len(filtered_df) /\ Len(filtered_df) < Len(df)
    /\ \E j \in 1..Len(filtered_df) :
          df[filtered_df[j]].Price_Numeric = Int2Num(widgets.price_from)

AddAccepted == last.op = "add" /\ msg = "added"

\* C6: an accepted add with price p and space s writes the price text
\* format_price_for_csv(p) and the space text int(s) "ft"; after the reload the
\* new listing's numbers are parse_price(format_price_for_csv(p)) and s; for
\* p = 2,500,000 and s = 1200: "2.5M", "1200ft", 2,500,000 and 1200.
AddThenReload ==
    AddAccepted =>
        LET p == form.new_price
            s == form.new_space
            written == csv[Len(csv)]
            price_text == format_price_for_csv(Int2Num(p))
        IN  /\ written.Price = Cell(price_text)
            /\ written.Space = Cell(IntStr(s) \o <<"f", "t">>)
            /\ (p = 2500000 /\ s = 1200) =>
                  /\ written.Price.s = <<"2", ".", "5", "M">>
                  /\ written.Space.s = <<"1", "2", "0", "0", "f", "t">>
            /\ pc = "run" =>
                  /\ Len(df) = Len(csv)
                  /\ df[Len(df)].Price = written.Price /\ df[Len(df)].Space = written.Space
                  /\ df[Len(df)].Price_Numeric = parse_price(Cell(price_text)).val
                  /\ df[Len(df)].Space_Numeric = Int2Num(s)
                  /\ (p = 2500000 /\ s = 1200) =>
                        /\ df[Len(df)].Price_Numeric = Int2Num(2500000)
                        /\ df[Len(df)].Space_Numeric = Int2Num(1200)
                  /\ p = 2560000 => df[Len(df)].Price_Numeric = Int2Num(2600000)

\* the listing added with price 2,500,000 and space 1200 has been reloaded
AddedAndReloaded ==
    /\ AddAccepted /\ pc = "run"
    /\ form.new_price = 2500000 /\ form.new_space = 1200
    /\ df[Len(df)].Price_Numeric = Int2Num(2500000)

\* C7: in every state of the in-memory table, the state handed to save_data
\* included, each listing's numeric fields are the decode of its text fields.
NumericIsDecodeOfText ==
    \A i \in 1..Len(df) :
        /\ df[i].Price_Numeric = parse_price(df[i].Price).val
        /\ df[i].Space_Numeric = parse_space(df[i].Space).val

\* a step of the Save Project handler
SaveStep == pc = "run" /\ last'.op = "add"

AllSevenHold ==
    /\ form'.new_dev # "" /\ form'.new_proj # "" /\ form'.new_city # ""
    /\ form'.new_dis # "" /\ form'.new_type # ""
    /\ form'.new_price > 0 /\ form'.new_space > 0

\* C8: an add in which a text field is empty, or the price or the space is
\* not > 0, is rejected with an error message and leaves the table and the
\* file as they are; an add is accepted only when all seven conditions hold.
IncompleteAddRejected ==
    [][SaveStep =>
          IF AllSevenHold
          THEN /\ msg' = "added" /\ Len(df') = Len(df) + 1 /\ Len(csv') = Len(csv) + 1
          ELSE /\ msg' = "fill all required fields"
               /\ df' = df /\ csv' = csv]_vars

\* an add with price 0 has been rejected
ZeroPriceRejected ==
    /\ last.op = "add" /\ msg = "fill all required fields"
    /\ form.new_price = 0 /\ form.new_dev # ""

\* a step of the Delete Project handler
DeleteStep == pc = "run" /\ last'.op = "delete"

\* the label of the listing shown at the chosen position of the selector
Chosen == filtered_df[last'.selected + 1]

\* C9: delete removes exactly the listing shown at the chosen position,
\* leaves every other listing as it is, writes the remaining table to the
\* file and never fails with an index out of range, on every page.
DeleteRemovesChosen ==
    [][DeleteStep =>
          /\ msg' # "IndexError"
          /\ Len(df') = Len(df) - 1
          /\ \A i \in 1..Len(df') : df'[i] = IF i < Chosen THEN df[i] ELSE df[i + 1]
          /\ csv' = save_data(df')]_vars

\* C10: with every selector at "All" and the four range inputs at their
\* defaults, the filtered result holds every listing of a non-empty table.
DefaultsShowAll ==
    (pc = "run" /\ widgets = Defaults(df) /\ Len(df) > 0) => Len(filtered_df) = Len(df)

====
